---------------------------- MODULE Spec2Model ----------------------------
(***************************************************************************)
(* NeonVox: the HTTP API (backend/main.py: POST /api/tts, POST             *)
(* /api/tts-csv) and the batch CLI script (scripts/batch_tts_reels.py).    *)
(*                                                                         *)
(* Strings are sequences of one-character strings, so that strip(),        *)
(* lower(), os.path.splitext, Path.stem and the substring test are         *)
(* computed character by character as the Python code computes them.       *)
(* Speaking rate and volume are passed through to the local engine and     *)
(* touch nothing the model observes; they are left out.                    *)
(***************************************************************************)
EXTENDS Integers, Sequences, FiniteSets, TLC

(***************************************************************************)
(* Bounds of the model.                                                    *)
(***************************************************************************)
\* most rows in an uploaded / loaded CSV document
MaxRows == 3
\* most rows in the CSV file given to the CLI script
MaxCliRows == 2
\* most voices the local engine enumerates (voice matching)
MaxVoices == 2

(***************************************************************************)
(* Program constants.                                                      *)
(***************************************************************************)
\* MAX_CHARS = int(os.getenv("NEONVOX_MAX_CHARS", "2000")): the deployment
\* modelled here sets NEONVOX_MAX_CHARS=2.
MAX_CHARS == 2

\* Python's None where a string may stand (a one-element sequence that is no
\* character string, so that None and "" stay distinct)
None == <<"None">>
\* a request that does not carry the field at all
Omitted == <<"Omitted">>

(***************************************************************************)
(* str helpers                                                             *)
(***************************************************************************)
Whitespace == {" "}

\* the upper-case letters and their lower-case forms
LowerCase ==
    [ A |-> "a", B |-> "b", C |-> "c", D |-> "d", E |-> "e", F |->
      "f", G |-> "g", H |-> "h", I |-> "i", J |-> "j", K |-> "k", L
      |-> "l", M |-> "m", N |-> "n", O |-> "o", P |-> "p", Q |-> "q",
      R |-> "r", S |-> "s", T |-> "t", U |-> "u", V |-> "v", W |->
      "w", X |-> "x", Y |-> "y", Z |-> "z" ]

\* str.lower() on one character
LowerChar(c) == IF c \in DOMAIN LowerCase THEN LowerCase[c] ELSE c

\* str.lower()
Lower(s) == [i \in 1..Len(s) |-> LowerChar(s[i])]

RECURSIVE LStrip(_)
LStrip(s) ==
    IF s # <<>> /\ Head(s) \in Whitespace THEN LStrip(Tail(s)) ELSE s

RECURSIVE RStrip(_)
RStrip(s) ==
    IF s # <<>> /\ s[Len(s)] \in Whitespace
    THEN RStrip(SubSeq(s, 1, Len(s) - 1))
    ELSE s

\* str.strip()
Strip(s) == RStrip(LStrip(s))

\* (x or "")
OrEmpty(x) == IF x = None \/ x = Omitted THEN <<>> ELSE x

\* Python's `a in b` on strings
Contains(a, b) ==
    \E i \in 0..(Len(b) - Len(a)) : SubSeq(b, i + 1, i + Len(a)) = a

\* str.endswith
EndsWith(s, suf) ==
    /\ Len(s) >= Len(suf)
    /\ SubSeq(s, Len(s) - Len(suf) + 1, Len(s)) = suf

\* str.rfind of a one-character string; 0 when absent (Python's -1)
RFind(s, c) ==
    LET hits == {i \in 1..Len(s) : s[i] = c}
    IN IF hits = {} THEN 0 ELSE CHOOSE i \in hits : \A j \in hits : j <= i

DotMp3 == <<".", "m", "p", "3">>
DotWav == <<".", "w", "a", "v">>

(***************************************************************************)
(* os.path.splitext (genericpath._splitext): the extension starts at the   *)
(* last dot after the last separator, leading dots of the base name        *)
(* ignored.                                                                *)
(***************************************************************************)
SplitextRoot(p) ==
    LET sepIndex == RFind(p, "/")
        dotIndex == RFind(p, ".")
    IN IF dotIndex > sepIndex
          /\ \E k \in (sepIndex + 1)..(dotIndex - 1) : p[k] # "."
       THEN SubSeq(p, 1, dotIndex - 1)
       ELSE p

(***************************************************************************)
(* Process environment: module-level state of backend/main.py.             *)
(***************************************************************************)
Gtts == <<"g", "t", "t", "s">>
Pyttsx3 == <<"p", "y", "t", "t", "s", "x", "3">>
Espeak == <<"e", "s", "p", "e", "a", "k">>

\* {"gtts", "pyttsx3"}
EngineNames == {Gtts, Pyttsx3}

\* DEFAULT_ENGINE = os.getenv("NEONVOX_DEFAULT_ENGINE", "gtts").lower()
DefaultEngines == {Lower(x) : x \in {Gtts, Espeak}}

\* gTTS / pyttsx3 / AudioSegment are the imported library or None (FALSE);
\* ALLOW_GTTS is the policy flag.
Envs ==
    [ALLOW_GTTS : BOOLEAN, gTTS : BOOLEAN, pyttsx3 : BOOLEAN,
     AudioSegment : BOOLEAN, DEFAULT_ENGINE : DefaultEngines]

\* engine.getProperty('voices') of the installed local engine
InstalledVoices ==
    << [id |-> "v1", name |-> <<"A", "l">>, gender |-> <<"m", "a", "l", "e">>],
       [id |-> "v2", name |-> <<"Z", "i">>, gender |-> <<"F", "e", "m">>] >>

\* the voice a fresh pyttsx3 engine speaks with
DefaultVoice == "v0"

(***************************************************************************)
(* Errors and responses.                                                   *)
(***************************************************************************)
Detail(msg) == [msg |-> msg, row |-> None, limit |-> 0]

\* HTTPException(status_code=..., detail=...)
HTTPException(status, detail) == [status |-> status, detail |-> detail]

\* any other exception escaping a handler: the framework answers 500
UncaughtException(what) == [status |-> 500, detail |-> Detail(what)]

NoErr == [status |-> 0, detail |-> Detail("")]

NoBody == <<>>

ErrorResponse(err, errors) ==
    [status |-> err.status, media |-> "application/json",
     detail |-> err.detail, errors |-> errors, body |-> NoBody]

\* StreamingResponse(..., media_type=...)
StreamingResponse(media, body) ==
    [status |-> 200, media |-> media, detail |-> Detail(""), errors |-> {},
     body |-> body]

NoResponse ==
    [status |-> 0, media |-> "", detail |-> Detail(""), errors |-> {},
     body |-> NoBody]

(***************************************************************************)
(* Voice preference matching.                                              *)
(***************************************************************************)
\* the loop of _pyttsx3_select_voice from voice i on: the id the engine ends
\* with and the number of setProperty('voice', ...) calls
RECURSIVE ApiVoiceLoop(_, _, _, _)
ApiVoiceLoop(voices, pref_low, i, cur) ==
    IF i > Len(voices) THEN [voice |-> cur, sets |-> 0]
    ELSE LET v == voices[i]
             name == Lower(OrEmpty(v.name))
             gender == Lower(OrEmpty(v.gender))
         IN IF Contains(pref_low, name) \/ Contains(pref_low, gender)
            THEN [voice |-> v.id, sets |-> 1]
            ELSE ApiVoiceLoop(voices, pref_low, i + 1, cur)

pyttsx3_select_voice(voices, pref, cur) ==
    IF pref = None \/ pref = <<>> THEN [voice |-> cur, sets |-> 0]
    ELSE ApiVoiceLoop(voices, Lower(pref), 1, cur)

(***************************************************************************)
(* Synthesis calls.  A call is one step: it returns its error (NoErr on    *)
(* success), whether the backend library was invoked, the audio, the       *)
(* external effects in order, and the temporary files left on disk.        *)
(* `outcome` is what the third-party call does.                            *)
(***************************************************************************)
GttsOutcomes == {"ok", "engine_error"}
Pyttsx3Outcomes == {"ok", "engine_error", "conversion_failed"}

Mp3(text, via) == [fmt |-> "mp3", text |-> text, via |-> via]
NoData == [fmt |-> "", text |-> <<>>, via |-> ""]

\* a staging directory that is never removed
KeepTemporaryFiles(files, td) == files

\* leaving `with tempfile.TemporaryDirectory() as td:` by return or raise
\* (the directory td and everything in it is removed)
TemporaryDirectoryExit(files, td) == {f \in files : f[1] # td}

\* a call that raised before reaching its backend
Refused(err) ==
    [err |-> err, backend |-> "", voice |-> DefaultVoice, sets |-> 0,
     data |-> NoData, events |-> <<>>, left |-> {}]

\* the two checks of synthesize_gtts in the other order
GttsGateAvailabilityFirst(e) ==
    IF ~e.gTTS THEN HTTPException(500, Detail("gTTS not installed"))
    ELSE IF ~e.ALLOW_GTTS
    THEN HTTPException(403, Detail("gTTS is disabled by server policy"))
    ELSE NoErr

\* synthesize_gtts: the two checks before the backend is touched
GttsGate(e) ==
    IF ~e.ALLOW_GTTS
    THEN HTTPException(403, Detail("gTTS is disabled by server policy"))
    ELSE IF ~e.gTTS THEN HTTPException(500, Detail("gTTS not installed"))
    ELSE NoErr

synthesize_gtts(e, text, outcome, n) ==
    IF GttsGate(e) # NoErr THEN Refused(GttsGate(e))
    ELSE LET ok == outcome = "ok"
             created == IF ok THEN {<<n, "out.mp3">>} ELSE {}
         IN [err |-> IF ok THEN NoErr ELSE UncaughtException("Internal Server Error"),
             backend |-> "gtts", voice |-> DefaultVoice, sets |-> 0,
             data |-> IF ok THEN Mp3(text, "gtts") ELSE NoData,
             events |-> <<"mkdtemp", "gTTS">> \o (IF ok THEN <<"save out.mp3">> ELSE <<>>),
             left |-> TemporaryDirectoryExit(created, n)]

synthesize_pyttsx3_mp3(e, text, voice, outcome, n) ==
    IF ~e.pyttsx3
    THEN Refused(HTTPException(500, Detail("pyttsx3 not installed")))
    ELSE IF ~e.AudioSegment
    THEN Refused(HTTPException(500, Detail("pydub not installed")))
    ELSE LET sel == pyttsx3_select_voice(InstalledVoices, voice, DefaultVoice)
             wav == {<<n, "out.wav">>}
             mp3 == {<<n, "out.mp3">>}
             created == CASE outcome = "ok" -> wav \cup mp3
                          [] outcome = "conversion_failed" -> wav \cup mp3
                          [] OTHER -> wav
             err == CASE outcome = "ok" -> NoErr
                      [] outcome = "conversion_failed" ->
                           HTTPException(500, Detail("ffmpeg missing or conversion failed"))
                      [] OTHER -> UncaughtException("Internal Server Error")
             events == <<"pyttsx3.init", "mkdtemp", "save_to_file">>
                       \o (IF outcome = "engine_error" THEN <<>>
                           ELSE <<"write out.wav", "from_wav", "export out.mp3">>)
         IN [err |-> err, backend |-> "pyttsx3",
             voice |-> sel.voice, sets |-> sel.sets,
             data |-> IF outcome = "ok" THEN Mp3(text, "pyttsx3") ELSE NoData,
             events |-> events,
             left |-> TemporaryDirectoryExit(created, n)]

(***************************************************************************)
(* Inputs.                                                                 *)
(***************************************************************************)
\* request bodies of POST /api/tts: text
Texts ==
    { <<"h", "i">>, <<" ", "h", "i", " ">>, <<"h", "e", "y">>,
      <<" ", "h", "e", "y">>, <<" ">>, <<>> }

\* the engine field of a request
SuppliedEngines == {Omitted, <<"G", "T", "T", "S">>, Pyttsx3, Espeak}

\* the voice field of a request
VoicePrefs == {None, <<"f", "e", "m">>}

\* rows csv.DictReader yields: a cell is a string, or None when the row or
\* the header lacks the column
RawRows ==
    { [filename |-> <<" ", "a", ".", "w", "a", "v", " ">>,
       script_text |-> <<" ", "h", "i", " ">>],
      [filename |-> <<".", ".", "/", "b", ".", "x", "/", "c">>,
       script_text |-> <<"h">>],
      [filename |-> <<"d", ".", "m", "p", "3">>,
       script_text |-> <<"h", "e", "y">>],
      [filename |-> <<" ", " ">>, script_text |-> <<"h", "e", "y">>],
      [filename |-> <<"e", ".", "m", "p", "3">>, script_text |-> None] }

RECURSIVE SeqsUpTo(_, _)
SeqsUpTo(S, n) ==
    IF n = 0 THEN {<<>>}
    ELSE LET shorter == SeqsUpTo(S, n - 1)
         IN shorter \cup {Append(q, x) : q \in shorter, x \in S}

CsvDocuments == SeqsUpTo(RawRows, MaxRows)

NoRequest ==
    [kind |-> "", text |-> <<>>, engine |-> Omitted, voice |-> None,
     utf8 |-> TRUE, has_csv |-> FALSE, csv |-> <<>>, mp3_convert |-> TRUE]

(***************************************************************************)
(* State.                                                                  *)
(***************************************************************************)
VARIABLES
    env,      \* module-level configuration and optional imports
    pc,       \* where the running handler / script stands
    req,      \* the request (or command line) being served, as received
    eff,      \* the validated TTSRequest / the handler's normalised engine
    ri,       \* the loader's position in the CSV document (1-based)
    rows,     \* the rows the loader retained
    idx,      \* the synthesis loop's position in rows (1-based)
    zf,       \* entries written to the ZipFile so far
    calls,    \* every call of a synthesize function, in order
    resp,     \* the HTTP response
    tmpfs,    \* temporary files on disk
    outfiles, \* paths the CLI script wrote, in order
    status,   \* how the CLI script ended
    cliEngine,\* the CLI script's pyttsx3 engine: its voice, and how often
              \* setProperty('voice', ...) was called on it
    probe     \* voice matching on its own: a voice list, a preference, and
              \* what each of the two implementations made of them

vars ==
    <<env, pc, req, eff, ri, rows, idx, zf, calls, resp, tmpfs, outfiles, status,
      cliEngine, probe>>

NoFields == [engine |-> <<>>, text |-> <<>>]

\* the handler / script has neither answered nor exited yet; once it has,
\* pc stays where it returned or raised
Running == resp = NoResponse /\ status = ""

NotRun == [voice |-> "", sets |-> 0]

NoProbe == [voices |-> <<>>, pref |-> None, api |-> NotRun, cli |-> NotRun]

FreshEngine == [voice |-> DefaultVoice, sets |-> 0]

Init ==
    /\ env \in Envs
    /\ pc = "idle"
    /\ Running
    /\ req = NoRequest
    /\ eff = NoFields
    /\ ri = 1
    /\ rows = <<>>
    /\ idx = 1
    /\ zf = <<>>
    /\ calls = <<>>
    /\ resp = NoResponse
    /\ tmpfs = {}
    /\ outfiles = <<>>
    /\ status = ""
    /\ cliEngine = FreshEngine
    /\ probe = NoProbe

Call(item, fn, text, res) == [item |-> item, fn |-> fn, text |-> text, res |-> res]

(***************************************************************************)
(* POST /api/tts                                                           *)
(***************************************************************************)
ReceiveTts ==
    /\ pc = "idle"
    /\ Running
    /\ \E text \in Texts, engine \in SuppliedEngines, voice \in VoicePrefs :
         \* a voice preference is sent along with engine=pyttsx3 only
         /\ voice # None => engine = Pyttsx3
         /\ req' = [NoRequest EXCEPT !.kind = "tts", !.text = text,
                                     !.engine = engine, !.voice = voice]
    /\ pc' = "tts_validate"
    /\ UNCHANGED <<env, eff, ri, rows, idx, zf,
                 calls, resp, tmpfs, outfiles, status, cliEngine, probe>>

\* TTSRequest.validate_engine: TRUE when it raises
validate_engine_raises(v) == Lower(v) \notin EngineNames

\* TTSRequest.validate_text: TRUE when it raises
validate_text_raises(v) ==
    LET t == Strip(OrEmpty(v))
    IN t = <<>> \/ Len(t) > MAX_CHARS

\* Building the TTSRequest: a field validator runs on a supplied value; the
\* default of an omitted field is taken as it is.
TtsValidate ==
    /\ pc = "tts_validate"
    /\ Running
    /\ LET errors ==
              (IF req.engine # Omitted /\ validate_engine_raises(req.engine)
               THEN {"engine"} ELSE {})
              \cup (IF validate_text_raises(req.text) THEN {"text"} ELSE {})
       IN IF errors # {}
          THEN /\ resp' = ErrorResponse(HTTPException(422, Detail("validation error")), errors)
               /\ pc' = pc
               /\ eff' = eff
          ELSE /\ eff' = [engine |-> IF req.engine = Omitted
                                     THEN env.DEFAULT_ENGINE
                                     ELSE Lower(req.engine),
                          text |-> Strip(OrEmpty(req.text))]
               /\ pc' = "tts_handler"
               /\ resp' = resp
    /\ UNCHANGED <<env, req, ri, rows, idx, zf,
                 calls, tmpfs, outfiles, status, cliEngine, probe>>

\* async def tts(req)
Tts ==
    /\ pc = "tts_handler"
    /\ Running
    /\ \E outcome \in Pyttsx3Outcomes :
         LET n == Len(calls) + 1
             gtts == eff.engine = Gtts
             res == IF gtts
                    THEN synthesize_gtts(env, eff.text,
                            IF outcome \in GttsOutcomes THEN outcome ELSE "engine_error", n)
                    ELSE synthesize_pyttsx3_mp3(env, eff.text, req.voice, outcome, n)
         IN /\ calls' = Append(calls,
                          Call(0, IF gtts THEN "synthesize_gtts"
                                  ELSE "synthesize_pyttsx3_mp3", eff.text, res))
            /\ tmpfs' = tmpfs \cup res.left
            /\ resp' = IF res.err # NoErr
                       THEN ErrorResponse(res.err, {})
                       ELSE StreamingResponse("audio/mpeg",
                              <<[name |-> <<"n", "e", "o", "n", "v", "o", "x">> \o DotMp3,
                                 data |-> res.data]>>)
    /\ pc' = pc
    /\ UNCHANGED <<env, eff, req, ri, rows,
                 idx, zf, outfiles, status, cliEngine, probe>>

(***************************************************************************)
(* POST /api/tts-csv                                                       *)
(***************************************************************************)
ReceiveTtsCsv ==
    /\ pc = "idle"
    /\ Running
    /\ \E doc \in CsvDocuments, utf8 \in BOOLEAN,
          engine \in SuppliedEngines, voice \in VoicePrefs :
         /\ ~utf8 => doc = <<>> /\ engine = Omitted
         /\ voice # None => engine = Pyttsx3
         /\ req' = [NoRequest EXCEPT !.kind = "tts_csv", !.has_csv = TRUE,
                                     !.csv = doc,
                                     !.utf8 = utf8, !.engine = engine,
                                     !.voice = voice]
    /\ pc' = "csv_engine"
    /\ UNCHANGED <<env, eff, ri, rows, idx, zf,
                 calls, resp, tmpfs, outfiles, status, cliEngine, probe>>

\* engine: str = Form(DEFAULT_ENGINE); engine = (engine or "").lower()
CsvCheckEngine ==
    /\ pc = "csv_engine"
    /\ Running
    /\ LET engine == Lower(OrEmpty(IF req.engine = Omitted
                                   THEN env.DEFAULT_ENGINE ELSE req.engine))
       IN IF engine \notin EngineNames
          THEN /\ resp' = ErrorResponse(
                            HTTPException(400, Detail("engine must be 'gtts' or 'pyttsx3'")), {})
               /\ pc' = pc
               /\ eff' = eff
          ELSE /\ eff' = [eff EXCEPT !.engine = engine]
               /\ pc' = "csv_decode"
               /\ resp' = resp
    /\ UNCHANGED <<env, req, ri, rows, idx, zf,
                 calls, tmpfs, outfiles, status, cliEngine, probe>>

\* content.decode("utf-8")
CsvDecode ==
    /\ pc = "csv_decode"
    /\ Running
    /\ IF ~req.utf8
       THEN /\ resp' = ErrorResponse(
                         HTTPException(400, Detail("CSV must be UTF-8 encoded")), {})
            /\ pc' = pc
       ELSE /\ pc' = "csv_load"
            /\ resp' = resp
    /\ UNCHANGED <<env, eff, req, ri, rows, idx,
                 zf, calls, tmpfs, outfiles, status, cliEngine, probe>>

\* a filter that looks at the text only
SkipsRowWithoutText(fn, txt) == txt = <<>>

\* if not fn or not txt: continue
SkipsRow(fn, txt) == fn = <<>> \/ txt = <<>>

\* a loader without the length check
RowTooLongNever(txt) == FALSE

\* if len(txt) > MAX_CHARS: raise
RowTooLong(txt) == Len(txt) > MAX_CHARS

\* one turn of `for r in reader:`
CsvLoadRow ==
    /\ pc = "csv_load"
    /\ Running
    /\ ri <= Len(req.csv)
    /\ LET r == req.csv[ri]
           fn == Strip(OrEmpty(r.filename))
           txt == Strip(OrEmpty(r.script_text))
       IN IF SkipsRow(fn, txt)
          THEN /\ ri' = ri + 1
               /\ UNCHANGED <<rows, resp, pc>>
          ELSE IF RowTooLong(txt)
          THEN /\ resp' = ErrorResponse(
                            HTTPException(400,
                              [msg |-> "text exceeds chars", row |-> fn,
                               limit |-> MAX_CHARS]), {})
               /\ ri' = ri + 1
               /\ UNCHANGED <<rows, pc>>
          ELSE /\ rows' = Append(rows, [filename |-> fn, script_text |-> txt])
               /\ ri' = ri + 1
               /\ UNCHANGED <<resp, pc>>
    /\ UNCHANGED <<env, eff, req, idx, zf,
                 calls, tmpfs, outfiles, status, cliEngine, probe>>

\* if not rows: raise HTTPException(400, ...)
CsvCheckEmpty ==
    /\ pc = "csv_load"
    /\ Running
    /\ ri > Len(req.csv)
    /\ IF rows = <<>>
       THEN /\ resp' = ErrorResponse(
                         HTTPException(400, Detail("CSV appears empty or missing required columns")), {})
            /\ pc' = pc
       ELSE /\ pc' = "csv_synth"
            /\ resp' = resp
    /\ UNCHANGED <<env, eff, req, ri, rows, idx,
                 zf, calls, tmpfs, outfiles, status, cliEngine, probe>>

\* f"{base}.mp3" with base = os.path.splitext(item["filename"])[0]
ZipEntryName(filename) == SplitextRoot(filename) \o DotMp3

\* an archive in which a later entry replaces an earlier one of its name
ZipWritestrLastWins(z, name, data) ==
    Append(SelectSeq(z, LAMBDA x : x.name # name), [name |-> name, data |-> data])

\* zf.writestr(name, data)
ZipWritestr(z, name, data) == Append(z, [name |-> name, data |-> data])

\* a loop that lets HTTPException through and swallows everything else
PropagatesHTTPExceptionOnly(err) ==
    err # NoErr /\ err.detail.msg # "Internal Server Error"

\* nothing around the synthesize call catches: whatever it raises leaves the
\* loop, the `with zipfile.ZipFile` block and the handler
Propagates(err) == err # NoErr

\* one turn of `for i, item in enumerate(rows, 1):`
CsvSynthRow ==
    /\ pc = "csv_synth"
    /\ Running
    /\ idx <= Len(rows)
    /\ \E outcome \in Pyttsx3Outcomes :
         LET item == rows[idx]
             n == Len(calls) + 1
             gtts == eff.engine = Gtts
             res == IF gtts
                    THEN synthesize_gtts(env, item.script_text,
                            IF outcome \in GttsOutcomes THEN outcome ELSE "engine_error", n)
                    ELSE synthesize_pyttsx3_mp3(env, item.script_text, req.voice, outcome, n)
         IN /\ calls' = Append(calls,
                          Call(idx, IF gtts THEN "synthesize_gtts"
                                    ELSE "synthesize_pyttsx3_mp3", item.script_text, res))
            /\ tmpfs' = tmpfs \cup res.left
            /\ IF Propagates(res.err)
               THEN /\ resp' = ErrorResponse(res.err, {})
                    /\ pc' = pc
                    /\ UNCHANGED <<zf, idx>>
               ELSE /\ zf' = ZipWritestr(zf, ZipEntryName(item.filename), res.data)
                    /\ idx' = idx + 1
                    /\ UNCHANGED <<resp, pc>>
    /\ UNCHANGED <<env, eff, req, ri,
                 rows, outfiles, status, cliEngine, probe>>

\* return StreamingResponse(buf, media_type="application/zip", ...)
CsvRespond ==
    /\ pc = "csv_synth"
    /\ Running
    /\ idx > Len(rows)
    /\ resp' = StreamingResponse("application/zip", zf)
    /\ pc' = "csv_respond"
    /\ UNCHANGED <<env, eff, req, ri, rows, idx,
                 zf, calls, tmpfs, outfiles, status, cliEngine, probe>>

(***************************************************************************)
(* pathlib                                                                 *)
(***************************************************************************)
\* the components of a path string: split at "/", empty and "." components
\* dropped (PurePosixPath parsing)
RECURSIVE PathParts(_, _)
PathParts(s, cur) ==
    LET keep == IF cur = <<>> \/ cur = <<".">> THEN <<>> ELSE <<cur>>
    IN IF s = <<>> THEN keep
       ELSE IF Head(s) = "/" THEN keep \o PathParts(Tail(s), <<>>)
       ELSE PathParts(Tail(s), Append(cur, Head(s)))

\* Path(s)
Path(s) == [abs |-> s # <<>> /\ Head(s) = "/", parts |-> PathParts(s, <<>>)]

\* outdir / s: an absolute right operand replaces the left one
PathJoin(dir, s) ==
    LET q == Path(s)
    IN IF q.abs THEN q ELSE [abs |-> dir.abs, parts |-> dir.parts \o q.parts]

\* Path(s).stem: the final component without its suffix; the suffix starts
\* at the last dot unless that dot opens or closes the name
PathStem(s) ==
    LET parts == Path(s).parts
        name == IF parts = <<>> THEN <<>> ELSE parts[Len(parts)]
        i == RFind(name, ".")
    IN IF 1 < i /\ i < Len(name) THEN SubSeq(name, 1, i - 1) ELSE name

(***************************************************************************)
(* scripts/batch_tts_reels.py                                              *)
(***************************************************************************)
\* --out, default "./reel_audio"
OutDir == Path(<<".", "/", "r", "e", "e", "l">>)

\* load_default_scripts(): one item (its long script stands as "hi")
DefaultScripts ==
    << [filename |-> <<"D", "a", "y", "0", "1", ".", "m", "p", "3">>,
        script_text |-> <<"h", "i">>] >>

CliDocuments == SeqsUpTo(RawRows, MaxCliRows)

\* main(): parse_args, ensure_dir, then the items
CliMain ==
    /\ pc = "idle"
    /\ Running
    /\ \E eng \in EngineNames, has_csv \in BOOLEAN, doc \in CliDocuments,
          voice \in VoicePrefs, convert \in BOOLEAN :
         /\ ~has_csv => doc = <<>>
         /\ eng = Gtts => voice = None /\ convert
         /\ req' = [NoRequest EXCEPT !.kind = "cli", !.engine = eng,
                                     !.has_csv = has_csv, !.csv = doc,
                                     !.voice = voice, !.mp3_convert = convert]
         /\ IF has_csv
            THEN pc' = "cli_load" /\ rows' = rows
            ELSE pc' = "cli_dispatch" /\ rows' = DefaultScripts
    /\ UNCHANGED <<env, eff, ri, idx, zf, calls,
                 resp, tmpfs, outfiles, status, cliEngine, probe>>

\* load_from_csv: one turn of `for r in reader:`
CliLoadRow ==
    /\ pc = "cli_load"
    /\ Running
    /\ ri <= Len(req.csv)
    /\ LET r == req.csv[ri]
           filename == Strip(OrEmpty(r.filename))
           text == Strip(OrEmpty(r.script_text))
       IN rows' = IF filename # <<>> /\ text # <<>>
                  THEN Append(rows, [filename |-> filename, script_text |-> text])
                  ELSE rows
    /\ ri' = ri + 1
    /\ UNCHANGED <<env, eff, pc, req, idx, zf,
                 calls, resp, tmpfs, outfiles, status, cliEngine, probe>>

\* load_from_csv: if not rows: raise SystemExit(...)
CliCheckEmpty ==
    /\ pc = "cli_load"
    /\ Running
    /\ ri > Len(req.csv)
    /\ IF rows = <<>>
       THEN /\ status' = "SystemExit: CSV appears empty or missing required columns"
            /\ pc' = pc
       ELSE /\ pc' = "cli_dispatch"
            /\ status' = status
    /\ UNCHANGED <<env, eff, req, ri, rows, idx,
                 zf, calls, resp, tmpfs, outfiles, cliEngine, probe>>

\* save_with_gtts: from gtts import gTTS
CliGttsImport ==
    /\ pc = "cli_dispatch"
    /\ Running
    /\ req.engine = Gtts
    /\ IF env.gTTS
       THEN pc' = "cli_gtts" /\ status' = status
       ELSE pc' = pc /\ status' = "ImportError: gtts"
    /\ UNCHANGED <<env, eff, req, ri, rows, idx,
                 zf, calls, resp, tmpfs, outfiles, cliEngine, probe>>

\* save_with_gtts: the path an item is saved to
GttsOutPath(outdir, filename) ==
    PathJoin(outdir,
             IF EndsWith(Lower(filename), DotMp3) THEN filename
             ELSE filename \o DotMp3)

\* save_with_gtts: one turn of `for i, item in enumerate(items, 1):`
CliGttsItem ==
    /\ pc = "cli_gtts"
    /\ Running
    /\ idx <= Len(rows)
    /\ \E outcome \in GttsOutcomes :
         LET item == rows[idx]
             outpath == GttsOutPath(OutDir, item.filename)
         IN /\ calls' = Append(calls,
                          Call(idx, "gTTS", item.script_text,
                               [err |-> IF outcome = "ok" THEN NoErr
                                        ELSE UncaughtException("gTTS"),
                                backend |-> "gtts", voice |-> DefaultVoice,
                                sets |-> 0, data |-> NoData,
                                events |-> <<"gTTS">>, left |-> {}]))
            /\ IF outcome = "ok"
               THEN /\ outfiles' = Append(outfiles, outpath)
                    /\ idx' = idx + 1
                    /\ UNCHANGED <<pc, status>>
               ELSE /\ pc' = pc
                    /\ status' = "Exception: gTTS"
                    /\ UNCHANGED <<outfiles, idx>>
    /\ UNCHANGED <<env, eff, req, ri, rows,
                 zf, resp, tmpfs, cliEngine, probe>>

\* the same loop without its `break`: the last matching voice wins
RECURSIVE CliVoiceLoopNoBreak(_, _, _)
CliVoiceLoopNoBreak(voices, pref, i) ==
    IF i > Len(voices) THEN "None"
    ELSE LET v == voices[i]
             name == Lower(OrEmpty(v.name))
             gender == Lower(OrEmpty(v.gender))
             later == CliVoiceLoopNoBreak(voices, pref, i + 1)
         IN IF later # "None" THEN later
            ELSE IF Contains(pref, name) \/ Contains(pref, gender)
            THEN v.id
            ELSE "None"

\* the loop of save_with_pyttsx3 over the voices from voice i on:
\* selected_id when it breaks, None when it runs out
RECURSIVE CliVoiceLoop(_, _, _)
CliVoiceLoop(voices, pref, i) ==
    IF i > Len(voices) THEN "None"
    ELSE LET v == voices[i]
             name == Lower(OrEmpty(v.name))
             gender == Lower(OrEmpty(v.gender))
         IN IF Contains(pref, name) \/ Contains(pref, gender)
            THEN v.id
            ELSE CliVoiceLoop(voices, pref, i + 1)

\* save_with_pyttsx3: `if voice_pref:` ... `if selected_id: setProperty`
cli_select_voice(voices, voice_pref, cur) ==
    IF voice_pref = None \/ voice_pref = <<>> THEN [voice |-> cur, sets |-> 0]
    ELSE LET selected_id == CliVoiceLoop(voices, Lower(voice_pref), 1)
         IN IF selected_id # "None" /\ selected_id # ""
            THEN [voice |-> selected_id, sets |-> 1]
            ELSE [voice |-> cur, sets |-> 0]

\* save_with_pyttsx3: import pyttsx3, pyttsx3.init(), the voice preference
CliPyttsx3Init ==
    /\ pc = "cli_dispatch"
    /\ Running
    /\ req.engine = Pyttsx3
    /\ IF env.pyttsx3
       THEN /\ pc' = "cli_pyttsx3"
            /\ cliEngine' = cli_select_voice(InstalledVoices, req.voice, cliEngine.voice)
            /\ status' = status
       ELSE /\ pc' = pc
            /\ status' = "ImportError: pyttsx3"
            /\ cliEngine' = cliEngine
    /\ UNCHANGED <<env, eff, req, ri, rows, idx,
                 zf, calls, resp, tmpfs, outfiles, probe>>

\* save_with_pyttsx3: wav_path and mp3_path of an item
Pyttsx3OutPath(outdir, filename, ext) ==
    PathJoin(outdir, PathStem(filename) \o ext)

\* save_with_pyttsx3: one turn of `for i, item in enumerate(items, 1):`,
\* wav_to_mp3_if_possible included
CliPyttsx3Item ==
    /\ pc = "cli_pyttsx3"
    /\ Running
    /\ idx <= Len(rows)
    /\ \E outcome \in Pyttsx3Outcomes :
         LET item == rows[idx]
             wav_path == Pyttsx3OutPath(OutDir, item.filename, DotWav)
             mp3_path == Pyttsx3OutPath(OutDir, item.filename, DotMp3)
             converts == req.mp3_convert /\ env.AudioSegment
             failed == \/ outcome = "engine_error"
                       \/ outcome = "conversion_failed" /\ converts
         IN /\ calls' = Append(calls,
                          Call(idx, "pyttsx3", item.script_text,
                               [err |-> IF failed THEN UncaughtException("pyttsx3")
                                        ELSE NoErr,
                                backend |-> "pyttsx3", voice |-> cliEngine.voice,
                                sets |-> 0, data |-> NoData,
                                events |-> <<"save_to_file">>, left |-> {}]))
            /\ outfiles' = outfiles
                 \o (IF outcome = "engine_error" THEN <<>> ELSE <<wav_path>>)
                 \o (IF converts /\ outcome = "ok" THEN <<mp3_path>> ELSE <<>>)
            /\ IF failed
               THEN pc' = pc /\ status' = "Exception: pyttsx3" /\ idx' = idx
               ELSE idx' = idx + 1 /\ UNCHANGED <<pc, status>>
    /\ UNCHANGED <<env, eff, req, ri, rows,
                 zf, resp, tmpfs, cliEngine, probe>>

\* main(): print("Done. ...")
CliDone ==
    /\ pc \in {"cli_gtts", "cli_pyttsx3"}
    /\ Running
    /\ idx > Len(rows)
    /\ pc' = "cli_done"
    /\ status' = "Done"
    /\ UNCHANGED <<env, eff, req, ri, rows, idx,
                 zf, calls, resp, tmpfs, outfiles, cliEngine, probe>>

Next ==
    \/ ReceiveTts
    \/ TtsValidate
    \/ Tts
    \/ ReceiveTtsCsv
    \/ CsvCheckEngine
    \/ CsvDecode
    \/ CsvLoadRow
    \/ CsvCheckEmpty
    \/ CsvSynthRow
    \/ CsvRespond
    \/ CliMain
    \/ CliLoadRow
    \/ CliCheckEmpty
    \/ CliGttsImport
    \/ CliGttsItem
    \/ CliPyttsx3Init
    \/ CliPyttsx3Item
    \/ CliDone

Spec == Init /\ [][Next]_vars

(***************************************************************************)
(* Voice matching on its own: both implementations applied to the same     *)
(* voice list and preference, each on a fresh engine.  (A driver whose     *)
(* getProperty('voices') raises enumerates nothing and is not modelled.)   *)
(***************************************************************************)
\* name and gender of the voices a driver may report; gender is None with
\* drivers that do not know it
VoiceKinds ==
    { [name |-> <<"A", "l">>, gender |-> <<"m", "a", "l", "e">>],
      [name |-> <<"Z", "i">>, gender |-> <<"F", "e", "m", "a", "l", "e">>],
      [name |-> <<"F", "E", "M">>, gender |-> None] }

VoiceIds == <<"v1", "v2", "v3", "v4">>

\* the voice lists: up to MaxVoices voices, ids in enumeration order
VoiceLists ==
    { [i \in 1..Len(q) |->
         [id |-> VoiceIds[i], name |-> q[i].name, gender |-> q[i].gender]] :
      q \in SeqsUpTo(VoiceKinds, MaxVoices) }

ProbePrefs ==
    { None, <<>>, <<"f", "e", "m">>, <<"M", "A", "L", "E">>, <<"a", "l">>,
      <<"x">> }

InitVoice ==
    /\ env \in {e \in Envs : e.ALLOW_GTTS /\ e.gTTS /\ e.pyttsx3 /\ e.AudioSegment
                             /\ e.DEFAULT_ENGINE = Gtts}
    /\ pc = "voice"
    /\ req = NoRequest
    /\ eff = NoFields
    /\ ri = 1
    /\ rows = <<>>
    /\ idx = 1
    /\ zf = <<>>
    /\ calls = <<>>
    /\ resp = NoResponse
    /\ tmpfs = {}
    /\ outfiles = <<>>
    /\ status = ""
    /\ cliEngine = FreshEngine
    /\ probe \in [voices : VoiceLists, pref : ProbePrefs, api : {NotRun},
                  cli : {NotRun}]

\* _pyttsx3_select_voice(engine, pref) on a fresh engine
ApiSelectVoice ==
    /\ pc = "voice"
    /\ probe.api = NotRun
    /\ probe' = [probe EXCEPT
                   !.api = pyttsx3_select_voice(probe.voices, probe.pref, DefaultVoice)]
    /\ UNCHANGED <<env, pc, req, eff, ri, rows, idx, zf, calls, resp, tmpfs,
                   outfiles, status, cliEngine>>

\* the `if voice_pref:` block of save_with_pyttsx3 on a fresh engine
CliSelectVoice ==
    /\ pc = "voice"
    /\ probe.cli = NotRun
    /\ probe' = [probe EXCEPT
                   !.cli = cli_select_voice(probe.voices, probe.pref, DefaultVoice)]
    /\ UNCHANGED <<env, pc, req, eff, ri, rows, idx, zf, calls, resp, tmpfs,
                   outfiles, status, cliEngine>>

NextVoice == ApiSelectVoice \/ CliSelectVoice

SpecVoice == InitVoice /\ [][NextVoice]_vars

(***************************************************************************)
(* Vocabulary of the properties.                                           *)
(***************************************************************************)
Finished == ~Running

IsApi == req.kind \in {"tts", "tts_csv"}

\* a CSV cell as the loaders read it
Cell(x) == Strip(OrEmpty(x))

\* a retained row: non-empty filename and non-empty script_text
IsRetained(r) == Cell(r.filename) # <<>> /\ Cell(r.script_text) # <<>>

\* a retained row whose trimmed text is longer than MAX_CHARS
IsOverlong(r) == IsRetained(r) /\ Len(Cell(r.script_text)) > MAX_CHARS

\* a document without a retained row
NoneRetained(doc) == \A i \in 1..Len(doc) : ~IsRetained(doc[i])

HasOverlong(doc) == \E i \in 1..Len(doc) : IsOverlong(doc[i])

FirstOverlong(doc) ==
    CHOOSE i \in 1..Len(doc) :
        IsOverlong(doc[i]) /\ \A j \in 1..(i - 1) : ~IsOverlong(doc[j])

\* the retained rows of a document, trimmed, in input order
RetainedOf(doc) ==
    LET kept == SelectSeq(doc, IsRetained)
    IN [i \in 1..Len(kept) |->
          [filename |-> Cell(kept[i].filename),
           script_text |-> Cell(kept[i].script_text)]]

\* the engine a request asks for: the supplied one, else the configured
\* default, lowercased
EffectiveEngine ==
    Lower(OrEmpty(IF req.engine = Omitted THEN env.DEFAULT_ENGINE ELSE req.engine))

BackendOf(name) == IF name = Gtts THEN "gtts" ELSE "pyttsx3"

TextExceeds == "text exceeds chars"
EmptyBatch == "CSV appears empty or missing required columns"

\* fn splits after its k-th character into a root and an extension: a dot
\* followed by neither dot nor separator, with a character other than a dot
\* before it in the same path component
ExtAt(fn, k) ==
    /\ k < Len(fn)
    /\ fn[k + 1] = "."
    /\ \A j \in (k + 2)..Len(fn) : fn[j] \notin {".", "/"}
    /\ \E j \in 1..k :
         /\ fn[j] \notin {".", "/"}
         /\ \A m \in j..k : fn[m] # "/"

\* name is fn with its extension replaced by ".mp3" (".mp3" appended when fn
\* has no extension)
IsExtReplaced(fn, name) ==
    \E k \in 0..Len(fn) :
        /\ name = SubSeq(fn, 1, k) \o DotMp3
        /\ \/ ExtAt(fn, k)
           \/ k = Len(fn) /\ \A k2 \in 0..Len(fn) : ~ExtAt(fn, k2)

\* p lies directly in dir
IsDirectChild(p, dir) ==
    /\ p.abs = dir.abs
    /\ Len(p.parts) = Len(dir.parts) + 1
    /\ SubSeq(p.parts, 1, Len(dir.parts)) = dir.parts
    /\ p.parts[Len(p.parts)] \notin {<<".", ".">>}

(***************************************************************************)
(* C1.  No synthesize function is ever called for a request that carries   *)
(* over-long text.  POST /api/tts: when the trimmed text is longer than    *)
(* MAX_CHARS the request never reaches the handler and ends as a           *)
(* validation error (422) naming the text field.  POST /api/tts-csv: when  *)
(* some retained row is over-long the request never reaches the synthesis  *)
(* loop and ends as a 400; when it is the loader that ends it (the engine  *)
(* value and the encoding having been accepted), the 400 names the first   *)
(* over-long retained row in input order and the limit, also when valid    *)
(* rows precede it.                                                        *)
(***************************************************************************)
C1_NoBackendForOverlongText ==
    /\ (req.kind = "tts" /\ Len(Cell(req.text)) > MAX_CHARS) =>
          /\ calls = <<>>
          /\ pc = "tts_validate"
          /\ Finished => resp.status = 422 /\ "text" \in resp.errors
    /\ (req.kind = "tts_csv" /\ HasOverlong(req.csv)) =>
          /\ calls = <<>>
          /\ pc \in {"csv_engine", "csv_decode", "csv_load"}
          /\ Finished => resp.status = 400
          /\ (Finished /\ pc = "csv_load") =>
                resp.detail =
                   [msg |-> TextExceeds,
                    row |-> Cell(req.csv[FirstOverlong(req.csv)].filename),
                    limit |-> MAX_CHARS]

C1_Witness ==
    /\ req.kind = "tts_csv"
    /\ Finished
    /\ pc = "csv_load"
    /\ rows # <<>>
    /\ resp.detail.msg = TextExceeds
    /\ resp.detail.row = <<"d", ".", "m", "p", "3">>

(***************************************************************************)
(* C2.  tts_csv is sequential and fail-fast: the calls of the synthesize   *)
(* function are for rows 1, 2, ... in input order, one call per row; every *)
(* call but the last succeeded; and when the call for row k fails it is    *)
(* the last call ever made (no retry, rows k+1..n never attempted), the    *)
(* request has ended with an error and carries no ZIP.                     *)
(***************************************************************************)
C2_SequentialFailFast ==
    req.kind = "tts_csv" =>
       /\ Len(calls) <= Len(rows)
       /\ \A j \in 1..Len(calls) :
            /\ calls[j].item = j
            /\ calls[j].text = rows[j].script_text
       /\ \A j \in 1..(Len(calls) - 1) : calls[j].res.err = NoErr
       /\ \A k \in 1..Len(calls) :
            calls[k].res.err # NoErr =>
               /\ Len(calls) = k
               /\ Finished
               /\ resp.status \notin {0, 200}
               /\ resp.media # "application/zip"
               /\ resp.body = NoBody

C2_Witness ==
    /\ req.kind = "tts_csv"
    /\ Len(rows) = 3
    /\ Len(calls) = 2
    /\ calls[1].res.err = NoErr
    /\ calls[2].res.err # NoErr
    /\ Finished

(***************************************************************************)
(* C3.  The ZIP tts_csv returns holds one entry per retained row, in input *)
(* row order; the i-th entry carries the audio of the i-th row's text and  *)
(* is named after the i-th row's filename with its extension replaced by   *)
(* ".mp3"; rows that map to the same entry name are all written.           *)
(***************************************************************************)
C3_ZipEntries ==
    (req.kind = "tts_csv" /\ resp.media = "application/zip") =>
       /\ rows = RetainedOf(req.csv)
       /\ Len(resp.body) = Len(rows)
       /\ \A i \in 1..Len(resp.body) :
            /\ IsExtReplaced(rows[i].filename, resp.body[i].name)
            /\ resp.body[i].data.fmt = "mp3"
            /\ resp.body[i].data.text = rows[i].script_text

C3_Witness ==
    /\ req.kind = "tts_csv"
    /\ resp.media = "application/zip"
    /\ Len(resp.body) = 3
    /\ resp.body[1].name = resp.body[3].name
    /\ resp.body[2].name # resp.body[1].name
    /\ resp.body[1].name # rows[1].filename

(***************************************************************************)
(* C4.  Both CSV loaders skip a row whose trimmed filename or trimmed      *)
(* script_text is empty or absent: the rows kept are exactly the retained  *)
(* rows read so far, a skipped row raises nothing and is never             *)
(* synthesized, and tts_csv rejects a row for its length only if the row   *)
(* is retained.  A loader that finds no retained row ends with the         *)
(* empty-batch error (HTTP 400 / SystemExit) and nothing is synthesized.   *)
(***************************************************************************)
C4_BlankRowsSkipped ==
    /\ (req.kind = "tts_csv" /\ pc \in {"csv_load", "csv_synth", "csv_respond"}) =>
          LET read == SubSeq(req.csv, 1, ri - 1)
          IN /\ resp.detail.msg = TextExceeds => IsOverlong(req.csv[ri - 1])
             /\ ~HasOverlong(read) =>
                   /\ rows = RetainedOf(read)
                   /\ resp.detail.msg # TextExceeds
             /\ \A j \in 1..Len(calls) :
                   \E i \in 1..Len(read) :
                      /\ IsRetained(read[i])
                      /\ calls[j].text = Cell(read[i].script_text)
             /\ (Finished /\ pc = "csv_load" /\ NoneRetained(req.csv)) =>
                   /\ resp.status = 400
                   /\ resp.detail.msg = EmptyBatch
                   /\ calls = <<>>
             /\ pc # "csv_load" => ~NoneRetained(req.csv)
    /\ (req.kind = "cli" /\ req.has_csv) =>
          /\ rows = RetainedOf(SubSeq(req.csv, 1, ri - 1))
          /\ \A j \in 1..Len(calls) : calls[j].text = rows[calls[j].item].script_text
          /\ (pc # "cli_load" \/ calls # <<>> \/ outfiles # <<>>) =>
                ~NoneRetained(req.csv)
          /\ (Finished /\ NoneRetained(req.csv)) =>
                status = "SystemExit: " \o EmptyBatch

C4_Witness ==
    /\ req.kind = "tts_csv"
    /\ Finished
    /\ resp.detail.msg = EmptyBatch
    /\ \E i \in 1..Len(req.csv) :
         /\ Cell(req.csv[i].filename) = <<>>
         /\ Len(Cell(req.csv[i].script_text)) > MAX_CHARS

(***************************************************************************)
(* C5.  Engine selection is never silently defaulted: a backend is invoked *)
(* only when the effective engine (the supplied one, else the configured   *)
(* default), lowercased, is "gtts" or "pyttsx3", and it is the backend     *)
(* named; any other effective engine ends in a validation error and no     *)
(* synthesize function is called.                                          *)
(***************************************************************************)
C5_EngineNeverDefaulted ==
    IsApi =>
       /\ \A j \in 1..Len(calls) :
            calls[j].res.backend # "" =>
               /\ EffectiveEngine \in EngineNames
               /\ calls[j].res.backend = BackendOf(EffectiveEngine)
       /\ EffectiveEngine \notin EngineNames =>
            /\ calls = <<>>
            /\ Finished => resp.status \in {400, 422}

(***************************************************************************)
(* C6.  synthesize_pyttsx3_mp3 with the transcoder (AudioSegment) missing  *)
(* fails before the local engine is initialised or any WAV is written,     *)
(* with the transcoder-unavailable error (with the pyttsx3-not-installed   *)
(* error, checked first, when that library is missing too).  No temporary  *)
(* WAV or MP3 of a synthesis call, local or cloud, is on disk once the     *)
(* call has returned or raised.                                            *)
(***************************************************************************)
C6_TranscoderGateAndCleanup ==
    IsApi =>
       /\ tmpfs = {}
       /\ \A j \in 1..Len(calls) :
            /\ calls[j].res.left = {}
            /\ (calls[j].fn = "synthesize_pyttsx3_mp3" /\ ~env.AudioSegment) =>
                  /\ calls[j].res.err.status = 500
                  /\ calls[j].res.err.detail.msg =
                        (IF env.pyttsx3 THEN "pydub not installed"
                         ELSE "pyttsx3 not installed")
                  /\ calls[j].res.events = <<>>
                  /\ calls[j].res.backend = ""

C6_Witness ==
    /\ req.kind = "tts_csv"
    /\ env.pyttsx3
    /\ ~env.AudioSegment
    /\ Len(calls) = 1
    /\ calls[1].fn = "synthesize_pyttsx3_mp3"
    /\ calls[1].res.err.detail.msg = "pydub not installed"
    /\ Finished
    /\ tmpfs = {}

(***************************************************************************)
(* C7.  With ALLOW_GTTS off every call of synthesize_gtts fails with the   *)
(* policy error (403) and the cloud backend is not invoked, also when gTTS *)
(* is not installed; a cloud batch then returns no archive; and the cloud  *)
(* backend is invoked only with the policy flag on and gTTS installed.     *)
(***************************************************************************)
C7_PolicyDenied ==
    IsApi =>
       /\ \A j \in 1..Len(calls) :
            /\ (calls[j].fn = "synthesize_gtts" /\ ~env.ALLOW_GTTS) =>
                  /\ calls[j].res.err.status = 403
                  /\ calls[j].res.err.detail.msg = "gTTS is disabled by server policy"
                  /\ calls[j].res.backend = ""
                  /\ calls[j].res.events = <<>>
            /\ calls[j].res.backend = "gtts" => env.ALLOW_GTTS /\ env.gTTS
       /\ (req.kind = "tts_csv" /\ Finished /\ ~env.ALLOW_GTTS
           /\ EffectiveEngine = Gtts) =>
            /\ resp.status # 200
            /\ resp.body = NoBody
            /\ RetainedOf(req.csv) # <<>> /\ ~HasOverlong(req.csv) /\ req.utf8 =>
                  resp.status = 403

C7_Witness ==
    /\ req.kind = "tts_csv"
    /\ ~env.ALLOW_GTTS
    /\ ~env.gTTS
    /\ Len(calls) = 1
    /\ calls[1].res.err.status = 403
    /\ Finished

(***************************************************************************)
(* C8.  Whenever a per-item failure aborts tts_csv (oversized text, or a   *)
(* failure of the synthesize call for row k), the error returned           *)
(* identifies the offending item.                                          *)
(***************************************************************************)
C8_BatchErrorNamesItem ==
    (req.kind = "tts_csv" /\ Finished) =>
       /\ resp.detail.msg = TextExceeds =>
             resp.detail.row = Cell(req.csv[ri - 1].filename)
       /\ (pc = "csv_synth" /\ resp.status # 200) =>
             resp.detail.row = rows[Len(calls)].filename

(***************************************************************************)
(* C10.  No output is named with a directory component taken from the CSV: *)
(* every ZIP entry name is a bare file name, and every path the CLI script *)
(* writes lies directly in the output directory.                           *)
(***************************************************************************)
C10_OutputsAreBaseNames ==
    /\ \A i \in 1..Len(zf) :
         \A k \in 1..Len(zf[i].name) : zf[i].name[k] # "/"
    /\ \A i \in 1..Len(outfiles) : IsDirectChild(outfiles[i], OutDir)

(***************************************************************************)
(* C9.  Voice preference matching, in _pyttsx3_select_voice and in         *)
(* save_with_pyttsx3: with a preference given (not None, not empty) the    *)
(* voice set is the first voice in enumeration order whose lowercased name *)
(* or lowercased gender label contains the lowercased preference; with no  *)
(* such voice, or no preference, the engine keeps its voice; at most one   *)
(* voice is set; and the two implementations agree.                        *)
(***************************************************************************)
VoiceMatches(v, pref) ==
    \/ Contains(Lower(pref), Lower(OrEmpty(v.name)))
    \/ Contains(Lower(pref), Lower(OrEmpty(v.gender)))

ExpectedVoice(voices, pref) ==
    LET given == pref # None /\ pref # <<>>
        hits == IF given
                THEN {i \in 1..Len(voices) : VoiceMatches(voices[i], pref)}
                ELSE {}
    IN IF hits = {} THEN [voice |-> DefaultVoice, sets |-> 0]
       ELSE [voice |-> voices[CHOOSE i \in hits : \A j \in hits : i <= j].id,
             sets |-> 1]

=============================================================================
